---- MODULE Spec2Model ----
(***************************************************************************)
(* Model of FileUploadComponent (the image intake pipeline): addImages,    *)
(* handleFile with its asynchronous compression, deleteSingelImage and     *)
(* deleteAllImagesFromForm, as written in file-upload.component.ts (the    *)
(* MAX_IMAGES revision).                                                   *)
(*                                                                         *)
(* Sizes: the code computes size = base64.length * 0.75, a multiple of a   *)
(* quarter byte.  Every size of the model is kept in QUARTER BYTES         *)
(* (size = 3 * length), and a limit of n bytes is compared as 4 * n, so    *)
(* that the comparisons of the code are exact on integers.                 *)
(***************************************************************************)
EXTENDS Integers, Sequences, FiniteSets, TLC

\* ------------------------------------------------------------------ bounds
MaxOps == 2          \* calls of addImages, deleteSingelImage, deleteAllImagesFromForm
MaxFiles == 2        \* files in all the FileLists of one behaviour

MaxSnapshots == 2    \* snapshots of the 'users' collection
MaxConnects == 2     \* calls of connectTaskStream from the header and the app state
MaxAdded == 1        \* calls of addTask
MaxContactCalls == 3 \* calls of connectStreams and disconnectContactStream
MaxSessionCalls == 3 \* calls of afterLogin and afterLogout
MaxRegistrations == 2 \* calls of registerKeydownListener that attach a handler
MaxContacts == 2 \* contact inputs registered for keyboard navigation
MaxToasts == 3 \* timers of throwToast pending at once

\* ------------------------------------------------------- program constants
MAX_SINGLE_IMAGE_BYTES == 400 * 1024
MAX_TOTAL_IMAGES_BYTES == 810 * 1024
MAX_IMAGES == 8
FIRST_QUALITY == 95      \* quality 0.95, in percent
QUALITY_STEP == 20       \* quality -= 0.2, in percent
MAX_RETRIES == 4         \* for (let i = 0; i < 4; i++)

\* a limit of n bytes, in the quarter bytes the sizes are kept in
Quarter(n) == 4 * n

\* ------------------------------------------------------------------ inputs
\* the candidate File objects a FileList is made of (file.name, file.type and
\* file.size, the bytes of the file as it was picked); the files of one FileList
\* are distinct
Files ==
    { [name |-> "a.jpg", type |-> "image/jpeg", size |-> 2 * 1024 * 1024],
      [name |-> "b.webp", type |-> "image/webp", size |-> 300 * 1024],
      [name |-> "c.png", type |-> "image/png", size |-> 100 * 1024],
      [name |-> "d.gif", type |-> "image/gif", size |-> 50 * 1024] }
\* lengths of the data URL canvas.toDataURL may return: the prefix
\* "data:image/jpeg;base64," (as long as the one of image/webp) followed by
\* padded base64, which comes in groups of four characters
\*   LenFit   = 546131, 409598.25 bytes: the largest size within the per-file limit
\*   LenOver  = 546135, 409601.25 bytes: the smallest size above the per-file limit
\*   LenTiny  = 6847, 5135.25 bytes
\*   LenSmall = 6811, 5108.25 bytes: what the total budget leaves after two
\*              LenFit and one LenTiny, to the byte
DataUrlPrefix == Len("data:image/jpeg;base64,")
DataUrlLen(groups) == DataUrlPrefix + 4 * groups
LenFit == DataUrlLen((Quarter(MAX_SINGLE_IMAGE_BYTES) \div 3 - DataUrlPrefix) \div 4)
LenOver == LenFit + 4
LenTiny == DataUrlLen((5 * 1024) \div 3)
LenSmall == Quarter(MAX_TOTAL_IMAGES_BYTES) \div 3 - 2 * LenFit - LenTiny
Lens == {LenSmall, LenFit, LenOver}

\* length of the base64 string of the attachments the form starts with
\* (edit-task view); each is a collection within both limits
InitLens ==
    { <<>>,
      [i \in 1..(MAX_IMAGES - 1) |-> LenSmall],
      [i \in 1..MAX_IMAGES |-> LenSmall],
      <<LenFit, LenFit, LenTiny>> }

VARIABLES
    imagesForUpload,            \* TaskImage[]: <<[id, filename, mimeType, base64, size, call]>>
    invalidFiles,               \* string[]
    totalSizeExceededFiles,     \* string[]
    oversizedCompressedImages,  \* string[]
    errorTooManyImages,         \* signal<boolean>
    tasks,                      \* handleFile calls suspended in await compressImage(...)
    nextId,                     \* identity of the next File / TaskImage object
    calls,                      \* history: every addImages call, [op, len, files]: its number
                                \*   among the calls, imagesForUpload.length at the call, its FileList
    compressed,                 \* history: ids of the files compressImage was called on
    recorded,                   \* history: the outcome of every file that reached one
    ioFailed,                   \* history: ids of the files whose read or decode failed
    clearCall,                  \* history: the number of the last deleteAllImagesFromForm call
                                \*   among the calls, -1 if none
    nOps,                       \* calls made so far
    lastTarget,                 \* history: the argument of the last deleteSingelImage, 0 if none
    loop,                       \* one call of compressToTargetSize followed on its own:
                                \*   [pc, file, tries, quality, encodes, result]
    canvas,                     \* one call of handleCompression followed on its own:
                                \*   [pc, img, max, out]
    emitted,                    \* history: the number of updatingImages.emit calls
    lastEmitted,                \* history: the list of the last updatingImages.emit, <<>> if none
    taskData,                   \* TaskDataService and the user stream of UserDataService, followed on their own
    contactData,                \* ContactDataService, followed on its own
    orchestrator,               \* OrchestratorService, followed on its own
    form,                       \* TaskCreateFormComponent, followed on its own
    keyboard,                   \* KeyboardFocusService, followed on its own
    toast                       \* ToastService, followed on its own

vars == <<imagesForUpload, invalidFiles, totalSizeExceededFiles, oversizedCompressedImages,
          errorTooManyImages, tasks, nextId, calls, compressed, recorded, ioFailed,
          clearCall, nOps, lastTarget, loop, canvas, emitted, lastEmitted, taskData, contactData, orchestrator, form, keyboard, toast>>

\* the variables of the upload pipeline
pipelineVars == <<imagesForUpload, invalidFiles, totalSizeExceededFiles,
                  oversizedCompressedImages, errorTooManyImages, tasks, nextId, calls,
                  compressed, recorded, ioFailed, clearCall, nOps, lastTarget,
                  emitted, lastEmitted>>

\* all variables but the one named
notLoop == <<pipelineVars, canvas, taskData, contactData, orchestrator, form, keyboard, toast>>
notCanvas == <<pipelineVars, loop, taskData, contactData, orchestrator, form, keyboard, toast>>
notTaskData == <<pipelineVars, loop, canvas, contactData, orchestrator, form, keyboard, toast>>
notContactData == <<pipelineVars, loop, canvas, taskData, orchestrator, form, keyboard, toast>>
notOrchestrator == <<pipelineVars, loop, canvas, taskData, contactData, form, keyboard, toast>>
notForm == <<pipelineVars, loop, canvas, taskData, contactData, orchestrator, keyboard, toast>>
notKeyboard == <<pipelineVars, loop, canvas, taskData, contactData, orchestrator, form, toast>>
notToast == <<pipelineVars, loop, canvas, taskData, contactData, orchestrator, form,
              keyboard>>

\* ----------------------------------------------------------------- helpers
RECURSIVE SumSizes(_)
\* this.imagesForUpload.forEach((img) => (currentTotalImageBytes += img.size))
SumSizes(images) ==
    IF images = <<>> THEN 0 ELSE Head(images).size + SumSizes(Tail(images))

\* Array.prototype.indexOf by identity: 0-based index of the first match, -1 if none
IndexOf(images, target) ==
    IF \E i \in 1..Len(images) : images[i].id = target
    THEN (CHOOSE i \in 1..Len(images) :
             /\ images[i].id = target
             /\ \A j \in 1..(i - 1) : images[j].id # target) - 1
    ELSE -1

\* Array.prototype.splice(index, 1): a negative index counts from the end
Splice(images, index) ==
    LET n == Len(images)
        start == IF index < 0
                 THEN (IF n + index < 0 THEN 0 ELSE n + index)
                 ELSE (IF index > n THEN n ELSE index)
        count == IF n - start < 1 THEN n - start ELSE 1
    IN  [i \in 1..(n - count) |-> IF i <= start THEN images[i] ELSE images[i + count]]

\* the FileLists of up to n distinct files
RECURSIVE Batches(_)
Batches(n) ==
    IF n = 0 THEN {<<>>}
    ELSE LET shorter == Batches(n - 1)
         IN  shorter \cup
             UNION { { Append(b, f) : f \in Files \ {b[i] : i \in 1..Len(b)} } :
                       b \in {s \in shorter : Len(s) = n - 1} }

\* ----------------------------------------------------- validation helpers
\* a reset that leaves the list of names as it is
KeepWarnings(names) ==
    names

\* resetWarnings(): what it assigns to each of invalidFiles, totalSizeExceededFiles
\* and oversizedCompressedImages
ResetWarnings(names) ==
    <<>>

\* a count check that looks at the collection alone and forgets the batch
WouldExceedIgnoringAdditional(images, additionalCount) ==
    Len(images) > MAX_IMAGES

\* wouldExceedImageLimit(additionalCount): the returned value (the signal is set to it)
WouldExceedImageLimit(images, additionalCount) ==
    Len(images) + additionalCount > MAX_IMAGES

\* a format check that lets PNG through as well
IsInvalidAcceptingPng(file) ==
    ~(file.type = "image/png" \/ file.type = "image/jpeg" \/ file.type = "image/webp")

\* isInvalidImageFormat(file): the returned value (true pushes file.name to invalidFiles)
IsInvalidImageFormat(file) ==
    ~(file.type = "image/jpeg" \/ file.type = "image/webp")

\* shouldSkipFile(file): wouldExceedImageLimit() || isInvalidImageFormat(file);
\* "count" and "invalidFiles" skip the file, "go" lets handleFile continue
ShouldSkipFile(images, file) ==
    IF WouldExceedImageLimit(images, 0) THEN "count"
    ELSE IF IsInvalidImageFormat(file) THEN "invalidFiles"
    ELSE "go"

\* imageExceedsSizeLimit(newImageBytes, name): the returned value
ImageExceedsSizeLimit(newImageBytes) ==
    newImageBytes > Quarter(MAX_SINGLE_IMAGE_BYTES)

\* a budget check that forgets the images already in the collection
NoRoomIgnoringCollection(images, newImageBytes) ==
    ~(newImageBytes < Quarter(MAX_TOTAL_IMAGES_BYTES))

\* noRoomForAnotherImage(newImageBytes, name): the returned value
NoRoomForAnotherImage(images, newImageBytes) ==
    ~(SumSizes(images) + newImageBytes < Quarter(MAX_TOTAL_IMAGES_BYTES))

\* a TaskImage whose size is rounded to whole bytes
CreateTaskImageRounded(t, len) ==
    [id |-> t.fid, filename |-> t.name, mimeType |-> t.type,
     base64 |-> len, size |-> Quarter((3 * len + 2) \div 4), call |-> t.call]

\* a TaskImage that takes its size from the file as it was picked
CreateTaskImageFromFileSize(t, len) ==
    [id |-> t.fid, filename |-> t.name, mimeType |-> t.type,
     base64 |-> len, size |-> Quarter(t.size), call |-> t.call]

\* createTaskImage(file, compressedBase64); base64 is the length of the string,
\* size is compressedBase64.length * 0.75 in quarter bytes
CreateTaskImage(t, len) ==
    [id |-> t.fid, filename |-> t.name, mimeType |-> t.type,
     base64 |-> len, size |-> 3 * len, call |-> t.call]

\* the two checks after the await in the other order
HandleFileOutcomeSwapped(images, imageObject) ==
    IF NoRoomForAnotherImage(images, imageObject.size) THEN "totalSizeExceededFiles"
    ELSE IF ImageExceedsSizeLimit(imageObject.size) THEN "oversizedCompressedImages"
    ELSE "push"

\* handleFile after the await: the check that stops the file, or "push"
HandleFileOutcome(images, imageObject) ==
    IF ImageExceedsSizeLimit(imageObject.size) THEN "oversizedCompressedImages"
    ELSE IF NoRoomForAnotherImage(images, imageObject.size) THEN "totalSizeExceededFiles"
    ELSE "push"

\* a retry that halves the quality
NextQualityHalved(quality) ==
    quality \div 2

\* compressToTargetSize: quality -= 0.2, in percent
NextQuality(quality) ==
    quality - QUALITY_STEP

\* a push that keeps the attachments of one addImages call in the order of
\* its FileList
PushImageInBatchOrder(images, imageObject) ==
    LET later == {i \in 1..Len(images) :
                     images[i].call = imageObject.call /\ images[i].id > imageObject.id}
        at == IF later = {} THEN Len(images) + 1
              ELSE CHOOSE i \in later : \A j \in later : i <= j
    IN  [i \in 1..(Len(images) + 1) |->
            IF i < at THEN images[i] ELSE IF i = at THEN imageObject ELSE images[i - 1]]

\* handleFile after the checks: this.imagesForUpload.push(imageObject)
PushImage(images, imageObject) ==
    Append(images, imageObject)

\* a handleFile that emits before its checks
HandleFileEmitsAlways(outcome) ==
    TRUE

\* handleFile after the await: is updatingImages.emit(this.imagesForUpload) reached?
HandleFileEmits(outcome) ==
    outcome = "push"

\* a loop that gives up one retry early
RetryCompressionOneShort(t, len) ==
    /\ t.tries < MAX_RETRIES
    /\ 3 * len > Quarter(MAX_SINGLE_IMAGE_BYTES)

\* compressToTargetSize: is another encode started after one of this length?
RetryCompression(t, len) ==
    /\ t.tries <= MAX_RETRIES
    /\ 3 * len > Quarter(MAX_SINGLE_IMAGE_BYTES)

\* --------------------------------------------------------------- the state
InitImage(i, len) ==
    [id |-> i, filename |-> "old.jpg", mimeType |-> "image/jpeg",
     base64 |-> len, size |-> 3 * len, call |-> 0]

\* ------------------------------------------------------------ canvas sizes
RECURSIVE Gcd(_, _)
Gcd(a, b) == IF b = 0 THEN a ELSE Gcd(b, a % b)

\* the quotient num / den of two numbers, kept exact (in lowest terms)
Frac(num, den) == [num |-> num \div Gcd(num, den), den |-> den \div Gcd(num, den)]
Whole(n) == Frac(n, 1)

\* the value an assignment to canvas.width or canvas.height keeps: the
\* attribute is an unsigned long, a fraction is cut off
CanvasAttribute(f) == f.num \div f.den

\* a resize that waits for both sides to be over their maximum
SetCanvasSizeBothOver(width, height, maxWidth, maxHeight) ==
    LET resized == width > maxWidth /\ height > maxHeight
        w == IF ~resized THEN Whole(width)
             ELSE IF width > height THEN Whole(maxWidth)
             ELSE Frac(width * maxHeight, height)
        h == IF ~resized THEN Whole(height)
             ELSE IF width > height THEN Frac(height * maxWidth, width)
             ELSE Whole(maxHeight)
    IN  [width |-> w, height |-> h,
         canvasWidth |-> CanvasAttribute(w), canvasHeight |-> CanvasAttribute(h)]

\* setCanvasSize(canvas, img, maxWidth, maxHeight) for an image of width x height:
\* the returned width and height and the size the canvas is given
SetCanvasSize(width, height, maxWidth, maxHeight) ==
    LET resized == width > maxWidth \/ height > maxHeight
        w == IF ~resized THEN Whole(width)
             ELSE IF width > height THEN Whole(maxWidth)
             ELSE Frac(width * maxHeight, height)
        h == IF ~resized THEN Whole(height)
             ELSE IF width > height THEN Frac(height * maxWidth, width)
             ELSE Whole(maxHeight)
    IN  [width |-> w, height |-> h,
         canvasWidth |-> CanvasAttribute(w), canvasHeight |-> CanvasAttribute(h)]

\* no call of handleCompression is being followed
NoCanvas ==
    [pc |-> "idle", img |-> <<0, 0>>, max |-> <<0, 0>>,
     out |-> [width |-> Whole(0), height |-> Whole(0),
             canvasWidth |-> 0, canvasHeight |-> 0]]

\* ------------------------------------------- TaskDataService, UserDataService
\* the services after construction: no listener, no subscription, the task
\* collection of the user empty
\*   userListener          unsubUserList is set
\*   userIsReady           UserDataService.userIsReady
\*   contactsConnected     ContactDataService.unsubList is set
\*   subs                  the subscriptions to the task collection that are active
\*   unsubscribeFromTasks  the subscription the stored handle ends, 0: undefined
\*   userTasks             the number of documents in users/<id>/tasks
\*   existingTaskList, dummyTaskList   the lengths of the two lists
\*   seedings              the calls of addDummyTasksToEmptyUserTasks in flight
\*   tasksSubject          the length of the list tasksSubject holds
\*   history: nextSub, snapshots, connects, added (calls made), seeded
\*   (insertions of the dummy tasks), disconnected (disconnectTaskStream was the
\*   last call on the task stream), updatedAfter (tasksSubject.next ran since)
NoTaskData ==
    [userListener |-> FALSE, userIsReady |-> FALSE, contactsConnected |-> FALSE,
     subs |-> {}, unsubscribeFromTasks |-> 0, userTasks |-> 0,
     existingTaskList |-> 0, dummyTaskList |-> 0, seedings |-> {}, tasksSubject |-> 0,
     nextSub |-> 1, snapshots |-> 0, connects |-> 0, added |-> 0, seeded |-> 0,
     disconnected |-> FALSE, updatedAfter |-> FALSE]

\* ------------------------------------------------------ ContactDataService
\* the service after construction
\*   unsubUserList, unsubList   the listener the stored handle ends, 0: undefined
\*   userListeners, listeners   the 'users' and the contacts listeners that are active
\*   userIsReady                ContactDataService.userIsReady
\*   connecting                 the calls of connectContactStream in flight
\*   contacts                   the number of documents in users/<id>/contacts
\*   history: nextId, calls (connectStreams and disconnectContactStream calls
\*   made), disconnected (disconnectContactStream was the last of them)
NoContactData ==
    [unsubUserList |-> 0, userListeners |-> {}, userIsReady |-> FALSE,
     unsubList |-> 0, listeners |-> {}, connecting |-> {}, contacts |-> 0,
     nextId |-> 1, calls |-> 0, disconnected |-> FALSE]

\* ----------------------------------------------------- OrchestratorService
\* the service after construction
\*   joinAppState, guestInitDone   the two signals
\*   userId          contactDataService.currentUserIdSignal() is set
\*   guest           authenticationService.isGuestUser()
\*   dirty           the second effect is scheduled to run
\*   logins          calls of afterLogin('guest') awaiting createGuestUser
\*   guestInits      runs of the effect awaiting handleGuestInit
\*   history: calls (afterLogin and afterLogout calls made), loggedOut
\*   (afterLogout was the last of them)
NoOrchestrator ==
    [joinAppState |-> "SIGNED_OUT", guestInitDone |-> FALSE, userId |-> FALSE,
     guest |-> FALSE, dirty |-> TRUE, logins |-> 0, guestInits |-> 0,
     calls |-> 0, loggedOut |-> FALSE]

\* -------------------------------------------------- TaskCreateFormComponent
DefaultCategory == "Select task category"
Categories == {"Technical Task", "User Story"}
\* the elements document.activeElement is told apart by
Elements == {"assignedToInput", "contact", "categoryTechnicalTask",
             "categoryUserStory", "overlayMenu", "body"}
Keys == {"ArrowDown", "ArrowUp", "Tab", "Escape", "Enter"}

\* the form after construction
NoForm ==
    [isOverlayOpen1 |-> FALSE, isOverlayOpen2 |-> FALSE, overlay2WasOpen |-> FALSE,
     category |-> DefaultCategory, showCategoryError |-> FALSE,
     activeElement |-> "body"]

ToggleOverlay1(f) == [f EXCEPT !.isOverlayOpen1 = ~@, !.isOverlayOpen2 = FALSE]

ToggleOverlay2(f) == [f EXCEPT !.isOverlayOpen2 = ~@, !.isOverlayOpen1 = FALSE]

\* toggleOverlay(type, event)
ToggleOverlayOf(f, type) ==
    IF type = "assign" THEN ToggleOverlay1(f)
    ELSE ToggleOverlay2(IF ~f.isOverlayOpen2 THEN [f EXCEPT !.overlay2WasOpen = TRUE]
                        ELSE f)

\* the five handlers onKeyDown calls, each on what the one before left
HandleOverlay1Navigation(f, key, shiftKey) ==
    LET moved == IF key \in {"ArrowDown", "ArrowUp"} /\ f.isOverlayOpen1
                 THEN [f EXCEPT !.activeElement = "contact"] ELSE f
    IN  IF /\ key = "Tab"
           /\ moved.isOverlayOpen1
           /\ (moved.activeElement # "assignedToInput" \/ shiftKey)
        THEN [moved EXCEPT !.isOverlayOpen1 = FALSE]
        ELSE moved

HandleOverlay1Close(f, key) ==
    IF key = "Escape" /\ f.isOverlayOpen1 THEN ToggleOverlay1(f) ELSE f

HandleOverlay2ArrowNavigation(f, key) ==
    IF key = "ArrowDown" /\ f.isOverlayOpen2
    THEN [f EXCEPT !.activeElement = IF @ = "categoryTechnicalTask"
                                     THEN "categoryUserStory"
                                     ELSE "categoryTechnicalTask"]
    ELSE IF key = "ArrowUp" /\ f.isOverlayOpen2
    THEN [f EXCEPT !.activeElement = IF @ = "categoryUserStory"
                                     THEN "categoryTechnicalTask"
                                     ELSE "categoryUserStory"]
    ELSE f

HandleOverlay2TabNavigation(f, key) ==
    IF key = "Tab" /\ f.isOverlayOpen2 THEN ToggleOverlay2(f) ELSE f

HandleOverlay2Close(f, key) ==
    IF key = "Escape" /\ f.isOverlayOpen2 THEN ToggleOverlay2(f) ELSE f

\* ----------------------------------------------------- KeyboardFocusService
\* the service after construction
\*   listeners          keydown handlers of the service attached to the document
\*   focusableContacts  the length of the list
\*   hasEnterCallback   enterCallback is set
\*   history: handled (how often the last key press was handled), entered
\*   (how often it ran the enter callback)
NoKeyboard ==
    [listenerAttached |-> FALSE, listeners |-> 0, focusableContacts |-> 0,
     focusedContactIndex |-> -1, overlay1Open |-> FALSE, overlay2Open |-> FALSE,
     hasEnterCallback |-> FALSE, handled |-> 0, entered |-> 0]

\* applyFocus(index)
ApplyFocus(k, index) ==
    IF index < 0 \/ index >= k.focusableContacts THEN k
    ELSE [k EXCEPT !.focusedContactIndex = index]

FocusNext(k) ==
    LET current == k.focusedContactIndex
    IN  IF current = -1 /\ k.focusableContacts > 0 THEN ApplyFocus(k, 0)
        ELSE IF current + 1 < k.focusableContacts THEN ApplyFocus(k, current + 1)
        ELSE k

FocusPrevious(k) ==
    LET current == k.focusedContactIndex
    IN  IF current = -1 /\ k.focusableContacts > 0 THEN ApplyFocus(k, 0)
        ELSE IF current - 1 >= 0 THEN ApplyFocus(k, current - 1)
        ELSE k

HandleEnter(k) ==
    IF k.focusedContactIndex = -1 THEN k
    ELSE IF k.hasEnterCallback THEN [k EXCEPT !.entered = @ + 1]
    ELSE k

HandleEscape(k) ==
    [k EXCEPT !.overlay1Open = FALSE, !.overlay2Open = FALSE,
              !.focusedContactIndex = -1]

\* handleKeydown(event), one run of one attached handler
HandleKeydown(k, key) ==
    LET run == [k EXCEPT !.handled = @ + 1]
    IN  CASE key = "ArrowDown" -> FocusNext(run)
          [] key = "ArrowUp"   -> FocusPrevious(run)
          [] key = "Enter"     -> HandleEnter(run)
          [] key = "Escape"    -> HandleEscape(run)
          [] OTHER             -> run

\* the document calls every attached handler with the event
RECURSIVE Dispatch(_, _, _)
Dispatch(k, key, n) ==
    IF n = 0 THEN k ELSE Dispatch(HandleKeydown(k, key), key, n - 1)

\* ------------------------------------------------------------- ToastService
SHOW_TIME == 2550
\* the passing of time is followed in steps of a third of SHOW_TIME
TickTime == SHOW_TIME \div 3

\* some of the codes throwToast is called with
ToastCodes == {"task/save/error", "guest/login/success", "auth/logout/error", "none"}

HandleToast(code) ==
    CASE code = "task/save/error"     -> "Failed to save task."
      [] code = "guest/login/success" -> "Guest successfully logged in"
      [] code = "auth/logout/error"   -> "Failed to logout"
      [] OTHER                        -> "An unknown error occurred. Please try again."

\* the service after construction; timers holds, oldest first, the time left
\* on each timer throwToast has set and that has not fired
NoToast == [showToast |-> FALSE, toastMessage |-> "", timers |-> <<>>]

\* no call of compressToTargetSize is being followed
NoLoop ==
    [pc |-> "idle", file |-> "", tries |-> 0, quality |-> 0, encodes |-> <<>>, result |-> 0]

Init ==
    /\ \E lens \in InitLens :
          /\ imagesForUpload = [i \in 1..Len(lens) |-> InitImage(i, lens[i])]
          /\ nextId = Len(lens) + 1
    /\ invalidFiles = <<>>
    /\ totalSizeExceededFiles = <<>>
    /\ oversizedCompressedImages = <<>>
    /\ errorTooManyImages = FALSE
    /\ tasks = {}
    /\ calls = <<>>
    /\ compressed = {}
    /\ recorded = {}
    /\ ioFailed = {}
    /\ clearCall = -1
    /\ nOps = 0
    /\ lastTarget = 0
    /\ loop = NoLoop
    /\ canvas = NoCanvas
    /\ emitted = 0
    /\ lastEmitted = <<>>
    /\ taskData = NoTaskData
    /\ contactData = NoContactData
    /\ orchestrator = NoOrchestrator
    /\ form = NoForm
    /\ keyboard = NoKeyboard
    /\ toast = NoToast

\* ------------------------------------------------------------- the actions
\* the number of files submitted so far
RECURSIVE NumSubmitted(_)
NumSubmitted(cs) ==
    IF cs = <<>> THEN 0 ELSE Len(Head(cs).files) + NumSubmitted(Tail(cs))

\* the File objects of a FileList, each with its identity
Submitted(files) ==
    [i \in 1..Len(files) |->
        [fid |-> nextId + i - 1, name |-> files[i].name, type |-> files[i].type,
         size |-> files[i].size]]

\* addImages(files), up to the first await of every handleFile it starts
AddImages(files) ==
    LET subm == Submitted(files)
        exceeds == WouldExceedImageLimit(imagesForUpload, Len(files))
        skip(i) == ShouldSkipFile(imagesForUpload, subm[i])
        started == IF exceeds THEN {}
                   ELSE {i \in 1..Len(subm) : skip(i) = "go"}
        invalid == IF exceeds THEN <<>>
                   ELSE SelectSeq(subm, LAMBDA f :
                            ShouldSkipFile(imagesForUpload, f) = "invalidFiles")
    IN  /\ nOps < MaxOps
        /\ nOps' = nOps + 1
        /\ NumSubmitted(calls) + Len(files) <= MaxFiles
        /\ calls' = Append(calls, [op |-> nOps + 1, len |-> Len(imagesForUpload),
                                   files |-> subm])
        /\ nextId' = nextId + Len(files)
        /\ invalidFiles' = ResetWarnings(invalidFiles)
                               \o [i \in 1..Len(invalid) |-> invalid[i].name]
        /\ totalSizeExceededFiles' = ResetWarnings(totalSizeExceededFiles)
        /\ oversizedCompressedImages' = ResetWarnings(oversizedCompressedImages)
        /\ errorTooManyImages' = exceeds
        /\ tasks' = tasks \cup
              { [fid |-> subm[i].fid, name |-> subm[i].name, type |-> subm[i].type,
                 size |-> subm[i].size, call |-> nOps + 1, tries |-> 1,
                 quality |-> FIRST_QUALITY] :
                i \in started }
        /\ compressed' = compressed \cup {subm[i].fid : i \in started}
        /\ recorded' = recorded \cup
              { [fid |-> invalid[i].fid, cat |-> "invalidFiles", size |-> -1] :
                i \in 1..Len(invalid) }
        /\ UNCHANGED <<imagesForUpload, ioFailed, clearCall, lastTarget, loop, canvas,
                       emitted, lastEmitted, taskData, contactData, orchestrator, form, keyboard, toast>>

\* deleteAllImagesFromForm()
DeleteAllImagesFromForm ==
    /\ nOps < MaxOps
    /\ nOps' = nOps + 1
    /\ imagesForUpload' = <<>>
    /\ invalidFiles' = ResetWarnings(invalidFiles)
    /\ totalSizeExceededFiles' = ResetWarnings(totalSizeExceededFiles)
    /\ oversizedCompressedImages' = ResetWarnings(oversizedCompressedImages)
    /\ errorTooManyImages' = WouldExceedImageLimit(<<>>, 0)
    /\ clearCall' = nOps + 1
    /\ emitted' = emitted + 1
    /\ lastEmitted' = imagesForUpload'
    /\ UNCHANGED <<tasks, nextId, calls, compressed, recorded, ioFailed, lastTarget,
                   loop, canvas, taskData, contactData, orchestrator, form, keyboard, toast>>

\* deleteSingelImage(imageToDelete): the collection after indexOf and splice
DeleteSingelImageResult(images, imageToDelete) ==
    Splice(images, IndexOf(images, imageToDelete))

\* deleteSingelImage(imageToDelete)
DeleteSingelImage(imageToDelete) ==
    /\ nOps < MaxOps
    /\ nOps' = nOps + 1
    /\ imagesForUpload' = DeleteSingelImageResult(imagesForUpload, imageToDelete)
    /\ invalidFiles' = ResetWarnings(invalidFiles)
    /\ totalSizeExceededFiles' = ResetWarnings(totalSizeExceededFiles)
    /\ oversizedCompressedImages' = ResetWarnings(oversizedCompressedImages)
    /\ errorTooManyImages' =
          WouldExceedImageLimit(DeleteSingelImageResult(imagesForUpload, imageToDelete), 0)
    /\ lastTarget' = imageToDelete
    /\ emitted' = emitted + 1
    /\ lastEmitted' = imagesForUpload'
    /\ UNCHANGED <<tasks, nextId, calls, compressed, recorded, ioFailed, clearCall,
                   loop, canvas, taskData, contactData, orchestrator, form, keyboard, toast>>

\* compressImage of task t resolves with a data URL of length len, and the
\* continuations run: the loop of compressToTargetSize and, when it returns,
\* the rest of handleFile
CompressImageResolves(t, len) ==
    IF RetryCompression(t, len)
    THEN /\ tasks' = (tasks \ {t}) \cup
                        {[t EXCEPT !.tries = @ + 1, !.quality = NextQuality(@)]}
         /\ UNCHANGED <<imagesForUpload, invalidFiles, totalSizeExceededFiles,
                        oversizedCompressedImages, errorTooManyImages, nextId, calls,
                        compressed, recorded, ioFailed, clearCall, nOps,
                        lastTarget, loop, canvas, emitted, lastEmitted, taskData, contactData, orchestrator, form, keyboard, toast>>
    ELSE LET imageObject == CreateTaskImage(t, len)
             outcome == HandleFileOutcome(imagesForUpload, imageObject)
         IN  /\ tasks' = tasks \ {t}
             /\ oversizedCompressedImages' =
                   IF outcome = "oversizedCompressedImages"
                   THEN Append(oversizedCompressedImages, t.name)
                   ELSE oversizedCompressedImages
             /\ totalSizeExceededFiles' =
                   IF outcome = "totalSizeExceededFiles"
                   THEN Append(totalSizeExceededFiles, t.name)
                   ELSE totalSizeExceededFiles
             /\ imagesForUpload' =
                   IF outcome = "push"
                   THEN PushImage(imagesForUpload, imageObject)
                   ELSE imagesForUpload
             /\ recorded' = recorded \cup
                   {[fid |-> t.fid, cat |-> outcome, size |-> imageObject.size]}
             /\ emitted' = IF HandleFileEmits(outcome) THEN emitted + 1 ELSE emitted
             /\ lastEmitted' = IF HandleFileEmits(outcome) THEN imagesForUpload'
                               ELSE lastEmitted
             /\ UNCHANGED <<invalidFiles, errorTooManyImages, nextId, calls, compressed,
                            ioFailed, clearCall, nOps, lastTarget, loop, canvas, taskData, contactData, orchestrator, form, keyboard, toast>>

\* a rejection that ends every handleFile of the same addImages call
CompressImageRejectsBatch(t) ==
    /\ tasks' = {u \in tasks : u.call # t.call}
    /\ ioFailed' = ioFailed \cup {t.fid}
    /\ UNCHANGED <<imagesForUpload, invalidFiles, totalSizeExceededFiles,
                   oversizedCompressedImages, errorTooManyImages, nextId, calls,
                   compressed, recorded, clearCall, nOps, lastTarget, loop, canvas, emitted, lastEmitted, taskData, contactData, orchestrator, form, keyboard, toast>>

\* compressImage of task t rejects (reader.onerror, img.onerror): the rejection
\* passes through compressToTargetSize and handleFile, nothing catches it
CompressImageRejects(t) ==
    /\ tasks' = tasks \ {t}
    /\ ioFailed' = ioFailed \cup {t.fid}
    /\ UNCHANGED <<imagesForUpload, invalidFiles, totalSizeExceededFiles,
                   oversizedCompressedImages, errorTooManyImages, nextId, calls,
                   compressed, recorded, clearCall, nOps, lastTarget, loop, canvas, emitted, lastEmitted, taskData, contactData, orchestrator, form, keyboard, toast>>

\* the TaskImage objects deleteSingelImage is called with: the first and the last
\* entry of the collection (the gallery passes an entry of the list it shows)
\* and the object of the previous call (a repeated click)
DeleteTargets ==
    {imagesForUpload[i].id : i \in {1, Len(imagesForUpload)} \cap 1..Len(imagesForUpload)}
        \cup ({lastTarget} \ {0})

Next ==
    \/ \E files \in Batches(MaxFiles) : AddImages(files)
    \/ DeleteAllImagesFromForm
    \/ \E imageToDelete \in DeleteTargets : DeleteSingelImage(imageToDelete)
    \/ \E t \in tasks, len \in Lens : CompressImageResolves(t, len)
    \/ \E t \in tasks : CompressImageRejects(t)

Spec == Init /\ [][Next]_vars

\* ------------------------------------- compressToTargetSize, followed alone
\* lengths of the data URLs of the encodes of one file
LoopLens == Lens \cup {LenOver + 4, 2 * LenOver}

\* compressToTargetSize(file), up to the await of the initial encode
CompressToTargetSize(file) ==
    /\ loop.pc = "idle"
    /\ ~IsInvalidImageFormat(file)
    /\ loop' = [pc |-> "await", file |-> file.name, tries |-> 1,
                quality |-> FIRST_QUALITY, encodes |-> <<>>, result |-> 0]
    /\ UNCHANGED notLoop

\* the awaited compressImage(file, 800, 800, quality) resolves with a data URL
\* of length len: the loop starts the next encode or returns compressedBase64
LoopEncodeResolves(len) ==
    /\ loop.pc = "await"
    /\ LET done == Append(loop.encodes,
                          [quality |-> loop.quality, input |-> loop.file, len |-> len])
       IN  IF RetryCompression(loop, len)
           THEN loop' = [loop EXCEPT !.tries = @ + 1, !.quality = NextQuality(@),
                                     !.encodes = done]
           ELSE loop' = [loop EXCEPT !.pc = "returned", !.encodes = done, !.result = len]
    /\ UNCHANGED notLoop

\* the awaited compressImage rejects: compressToTargetSize rejects with it
LoopEncodeRejects ==
    /\ loop.pc = "await"
    /\ loop' = [loop EXCEPT !.pc = "rejected"]
    /\ UNCHANGED notLoop

NextCompress ==
    \/ \E file \in Files : CompressToTargetSize(file)
    \/ \E len \in LoopLens : LoopEncodeResolves(len)
    \/ LoopEncodeRejects

\* FileReader and Image end every read and every decode with onload or onerror
SpecCompress ==
    /\ Init
    /\ [][NextCompress]_vars
    /\ WF_vars((\E len \in LoopLens : LoopEncodeResolves(len)) \/ LoopEncodeRejects)

\* --------------------------- TaskDataService and the user stream, followed alone
\* the documents of the global 'tasks' collection, the dummy tasks
NumDummyTasks == 2

\* connectTaskStream() on the service in state td: a new subscription, whose
\* unsubscribe replaces the stored handle
ConnectedTaskStream(td) ==
    [td EXCEPT !.subs = @ \cup {td.nextSub}, !.unsubscribeFromTasks = td.nextSub,
               !.nextSub = @ + 1, !.disconnected = FALSE, !.updatedAfter = FALSE]

\* UserDataService.connectUserStream()
ConnectUserStream ==
    /\ ~taskData.userListener
    /\ taskData' = [taskData EXCEPT !.userListener = TRUE]
    /\ UNCHANGED notTaskData

\* the callback of the 'users' listener, up to the first await of
\* addDummyTasksToEmptyUserTasks (loadExistingTasks has emptied existingTaskList)
UsersSnapshot ==
    /\ taskData.userListener
    /\ taskData.snapshots < MaxSnapshots
    /\ taskData' =
          IF taskData.userIsReady
          THEN [taskData EXCEPT !.snapshots = @ + 1]
          ELSE [ConnectedTaskStream(taskData) EXCEPT
                   !.snapshots = @ + 1,
                   !.contactsConnected = TRUE,
                   !.existingTaskList = 0,
                   !.seedings = @ \cup {[id |-> taskData.snapshots + 1, pc |-> "existing"]}]
    /\ UNCHANGED notTaskData

\* getDocs of loadExistingTasks resolves for the call c: the ids are pushed, and
\* addDummyTasksToEmptyUserTasks either starts loadDummyTasks (which empties
\* dummyTaskList) or returns, and the callback sets userIsReady
LoadExistingTasksResolves(c) ==
    /\ c \in taskData.seedings
    /\ c.pc = "existing"
    /\ LET existing == taskData.existingTaskList + taskData.userTasks
       IN  taskData' =
              IF existing = 0
              THEN [taskData EXCEPT !.existingTaskList = existing,
                                    !.dummyTaskList = 0,
                                    !.seedings = (@ \ {c}) \cup {[c EXCEPT !.pc = "dummy"]}]
              ELSE [taskData EXCEPT !.existingTaskList = existing,
                                    !.seedings = @ \ {c},
                                    !.userIsReady = TRUE]
    /\ UNCHANGED notTaskData

\* getDocs of loadDummyTasks resolves for the call c: the dummy tasks are pushed
\* to dummyTaskList, addFirestoreTask adds a document for every entry of the
\* list, and the callback sets userIsReady
LoadDummyTasksResolves(c) ==
    /\ c \in taskData.seedings
    /\ c.pc = "dummy"
    /\ LET dummies == taskData.dummyTaskList + NumDummyTasks
       IN  taskData' = [taskData EXCEPT !.dummyTaskList = dummies,
                                       !.userTasks = @ + dummies,
                                       !.seeded = @ + 1,
                                       !.seedings = @ \ {c},
                                       !.userIsReady = TRUE]
    /\ UNCHANGED notTaskData

\* connectTaskStream() called by the header or the app-state effect
ConnectTaskStream ==
    /\ taskData.connects < MaxConnects
    /\ taskData' = [ConnectedTaskStream(taskData) EXCEPT !.connects = @ + 1]
    /\ UNCHANGED notTaskData

\* disconnectTaskStream(): this.unsubscribeFromTasks?.()
DisconnectTaskStream ==
    /\ taskData' = [taskData EXCEPT !.subs = @ \ {taskData.unsubscribeFromTasks},
                                    !.disconnected = TRUE, !.updatedAfter = FALSE]
    /\ UNCHANGED notTaskData

\* addTask(task): a document is added to the task collection of the user
AddTask ==
    /\ taskData.added < MaxAdded
    /\ taskData' = [taskData EXCEPT !.userTasks = @ + 1, !.added = @ + 1]
    /\ UNCHANGED notTaskData

\* the subscription sub delivers the task collection: tasksSubject.next(tasks)
TaskSnapshot(sub) ==
    /\ sub \in taskData.subs
    /\ taskData' = [taskData EXCEPT !.tasksSubject = taskData.userTasks,
                                    !.updatedAfter = TRUE]
    /\ UNCHANGED notTaskData

NextTaskData ==
    \/ ConnectUserStream
    \/ UsersSnapshot
    \/ \E c \in taskData.seedings : LoadExistingTasksResolves(c)
    \/ \E c \in taskData.seedings : LoadDummyTasksResolves(c)
    \/ ConnectTaskStream
    \/ DisconnectTaskStream
    \/ AddTask
    \/ \E sub \in taskData.subs : TaskSnapshot(sub)

SpecTaskData == Init /\ [][NextTaskData]_vars

\* ------------------------------------------ ContactDataService, followed alone
\* the entries of initialDummyContactsList
NumDummyContacts == 2

\* connectContactStream after its awaits: onSnapshot on the contacts of the
\* user, whose unsubscribe replaces the stored handle
AttachedContactListener(cd) ==
    [cd EXCEPT !.listeners = @ \cup {cd.nextId}, !.unsubList = cd.nextId,
               !.nextId = @ + 1]

\* connectStreams(): connectUserStream()
ConnectStreams ==
    /\ contactData.calls < MaxContactCalls
    /\ contactData' =
          IF contactData.unsubUserList # 0
          THEN [contactData EXCEPT !.calls = @ + 1, !.disconnected = FALSE]
          ELSE [contactData EXCEPT !.calls = @ + 1, !.disconnected = FALSE,
                                   !.unsubUserList = contactData.nextId,
                                   !.userListeners = @ \cup {contactData.nextId},
                                   !.nextId = @ + 1]
    /\ UNCHANGED notContactData

\* the callback of the 'users' listener l: the first one sets userIsReady and
\* calls connectContactStream, which returns if a handle is stored and awaits
\* getDocs otherwise
ContactUsersSnapshot(l) ==
    /\ l \in contactData.userListeners
    /\ ~contactData.userIsReady
    /\ contactData' =
          IF contactData.unsubList # 0
          THEN [contactData EXCEPT !.userIsReady = TRUE]
          ELSE [contactData EXCEPT !.userIsReady = TRUE,
                                   !.connecting = @ \cup {[id |-> contactData.nextId,
                                                          pc |-> "getDocs"]},
                                   !.nextId = @ + 1]
    /\ UNCHANGED notContactData

\* getDocs of the call c of connectContactStream resolves: an empty collection
\* is filled first, otherwise the listener is attached
ContactGetDocsResolves(c) ==
    /\ c \in contactData.connecting
    /\ c.pc = "getDocs"
    /\ contactData' =
          IF contactData.contacts = 0
          THEN [contactData EXCEPT !.connecting = (@ \ {c}) \cup {[c EXCEPT !.pc = "fill"]}]
          ELSE [AttachedContactListener(contactData) EXCEPT !.connecting = @ \ {c}]
    /\ UNCHANGED notContactData

\* fillContactsWithDummyData of the call c resolves, and the listener is attached
FillContactsResolves(c) ==
    /\ c \in contactData.connecting
    /\ c.pc = "fill"
    /\ contactData' = [AttachedContactListener(contactData) EXCEPT
                          !.connecting = @ \ {c},
                          !.contacts = @ + NumDummyContacts]
    /\ UNCHANGED notContactData

\* disconnectContactStream()
DisconnectContactStream ==
    /\ contactData.calls < MaxContactCalls
    /\ contactData' =
          [contactData EXCEPT
              !.calls = @ + 1,
              !.disconnected = TRUE,
              !.listeners = @ \ {contactData.unsubList},
              !.unsubList = 0,
              !.userListeners = @ \ {contactData.unsubUserList},
              !.unsubUserList = 0,
              !.userIsReady = IF contactData.unsubUserList # 0 THEN FALSE ELSE @]
    /\ UNCHANGED notContactData

NextContactData ==
    \/ ConnectStreams
    \/ \E l \in contactData.userListeners : ContactUsersSnapshot(l)
    \/ \E c \in contactData.connecting : ContactGetDocsResolves(c)
    \/ \E c \in contactData.connecting : FillContactsResolves(c)
    \/ DisconnectContactStream

SpecContactData == Init /\ [][NextContactData]_vars

\* ----------------------------------------- OrchestratorService, followed alone
\* afterLogin(who), up to the await of createGuestUser for a guest and to its
\* end otherwise
AfterLogin(who) ==
    /\ orchestrator.calls < MaxSessionCalls
    /\ orchestrator' =
          IF who = "guest"
          THEN [orchestrator EXCEPT !.calls = @ + 1, !.loggedOut = FALSE,
                                    !.guest = TRUE, !.logins = @ + 1]
          ELSE [orchestrator EXCEPT !.calls = @ + 1, !.loggedOut = FALSE,
                                    !.guest = FALSE,
                                    !.joinAppState = "AUTHENTICATED", !.dirty = TRUE]
    /\ UNCHANGED notOrchestrator

\* createGuestUser resolves: afterLogin sets AUTHENTICATED
CreateGuestUserResolves ==
    /\ orchestrator.logins > 0
    /\ orchestrator' = [orchestrator EXCEPT !.logins = @ - 1,
                                            !.joinAppState = "AUTHENTICATED",
                                            !.dirty = TRUE]
    /\ UNCHANGED notOrchestrator

\* the contact service resolves the id of the user from the user list
UserIdResolved ==
    /\ orchestrator.joinAppState = "AUTHENTICATED"
    /\ ~orchestrator.userId
    /\ orchestrator' = [orchestrator EXCEPT !.userId = TRUE, !.dirty = TRUE]
    /\ UNCHANGED notOrchestrator

\* a run of the second effect of initOrchestratorEffect, up to its await
OrchestratorEffect ==
    /\ orchestrator.dirty
    /\ LET state == orchestrator.joinAppState
           ran == [orchestrator EXCEPT !.dirty = FALSE]
       IN  orchestrator' =
              IF ~orchestrator.userId THEN ran
              ELSE IF state = "AUTHENTICATED"
              THEN [ran EXCEPT !.joinAppState = "USER_INITIALIZED", !.dirty = TRUE]
              ELSE IF state = "USER_INITIALIZED" /\ ~orchestrator.guest
              THEN [ran EXCEPT !.joinAppState = "APP_READY", !.dirty = TRUE]
              ELSE IF state = "USER_INITIALIZED" /\ ~orchestrator.guestInitDone
              THEN [ran EXCEPT !.guestInitDone = TRUE, !.guestInits = @ + 1,
                               !.dirty = TRUE]
              ELSE IF state = "USER_INITIALIZED"
              THEN [ran EXCEPT !.joinAppState = "APP_READY", !.dirty = TRUE]
              ELSE ran
    /\ UNCHANGED notOrchestrator

\* handleGuestInit resolves: the effect goes on after its await
HandleGuestInitResolves ==
    /\ orchestrator.guestInits > 0
    /\ orchestrator' = [orchestrator EXCEPT !.guestInits = @ - 1,
                                            !.dirty = @ \/ orchestrator.joinAppState # "APP_READY",
                                            !.joinAppState = "APP_READY"]
    /\ UNCHANGED notOrchestrator

\* afterLogout(); whether disconnectContactAndUserStreams clears the id of the
\* user is not in the sources: either
AfterLogout ==
    /\ orchestrator.calls < MaxSessionCalls
    /\ \E cleared \in BOOLEAN :
          orchestrator' = [orchestrator EXCEPT !.calls = @ + 1, !.loggedOut = TRUE,
                                              !.guestInitDone = FALSE,
                                              !.userId = IF cleared THEN FALSE ELSE @,
                                              !.joinAppState = "SIGNED_OUT",
                                              !.dirty = TRUE]
    /\ UNCHANGED notOrchestrator

NextOrchestrator ==
    \/ \E who \in {"", "guest"} : AfterLogin(who)
    \/ CreateGuestUserResolves
    \/ UserIdResolved
    \/ OrchestratorEffect
    \/ HandleGuestInitResolves
    \/ AfterLogout

SpecOrchestrator == Init /\ [][NextOrchestrator]_vars

\* ------------------------------------- TaskCreateFormComponent, followed alone
ToggleOverlay(type) ==
    /\ form' = ToggleOverlayOf(form, type)
    /\ UNCHANGED notForm

\* handleOverlay2InFocus(event)
HandleOverlay2InFocus ==
    /\ form' = [ToggleOverlayOf(form, "category") EXCEPT !.activeElement = "overlayMenu"]
    /\ UNCHANGED notForm

OpenDropdown ==
    /\ form' = [form EXCEPT !.isOverlayOpen1 = TRUE]
    /\ UNCHANGED notForm

OpenOverlay1 ==
    /\ form' = [form EXCEPT !.isOverlayOpen1 = TRUE, !.isOverlayOpen2 = FALSE]
    /\ UNCHANGED notForm

CloseWindow ==
    /\ form' = [form EXCEPT !.isOverlayOpen1 = FALSE, !.isOverlayOpen2 = FALSE,
                            !.showCategoryError =
                                IF form.category = DefaultCategory /\ form.overlay2WasOpen
                                THEN TRUE ELSE @]
    /\ UNCHANGED notForm

SelectCategory(category) ==
    /\ form' = [form EXCEPT !.category = category, !.isOverlayOpen2 = FALSE,
                            !.showCategoryError = FALSE]
    /\ UNCHANGED notForm

OnKeyDown(key, shiftKey) ==
    /\ form' = HandleOverlay2Close(
                  HandleOverlay2TabNavigation(
                    HandleOverlay2ArrowNavigation(
                      HandleOverlay1Close(
                        HandleOverlay1Navigation(form, key, shiftKey), key), key), key), key)
    /\ UNCHANGED notForm

\* the part of clearData that concerns the overlays and the category
ClearData ==
    /\ form' = [form EXCEPT !.category = DefaultCategory, !.showCategoryError = FALSE,
                            !.overlay2WasOpen = FALSE]
    /\ UNCHANGED notForm

\* the user moves the focus to another element
Focus(element) ==
    /\ form.activeElement # element
    /\ form' = [form EXCEPT !.activeElement = element]
    /\ UNCHANGED notForm

NextForm ==
    \/ \E type \in {"assign", "category"} : ToggleOverlay(type)
    \/ HandleOverlay2InFocus
    \/ OpenDropdown
    \/ OpenOverlay1
    \/ CloseWindow
    \/ \E category \in Categories : SelectCategory(category)
    \/ \E key \in Keys, shiftKey \in BOOLEAN : OnKeyDown(key, shiftKey)
    \/ ClearData
    \/ \E element \in Elements : Focus(element)

SpecForm == Init /\ [][NextForm]_vars

\* ---------------------------------------- KeyboardFocusService, followed alone
\* registerKeydownListener(): handleKeydown.bind(this) is a new function, which
\* addEventListener attaches
RegisterKeydownListener ==
    /\ keyboard.listeners < MaxRegistrations \/ keyboard.listenerAttached
    /\ keyboard' = IF ~keyboard.listenerAttached
                   THEN [keyboard EXCEPT !.listeners = @ + 1, !.listenerAttached = TRUE]
                   ELSE keyboard
    /\ UNCHANGED notKeyboard

\* unregisterKeydownListener(): handleKeydown.bind(this) is a new function again,
\* one that was never attached, and removeEventListener removes only the
\* function it is given
UnregisterKeydownListener ==
    /\ keyboard' = IF keyboard.listenerAttached
                   THEN [keyboard EXCEPT !.listenerAttached = FALSE]
                   ELSE keyboard
    /\ UNCHANGED notKeyboard

RegisterEnterCallback ==
    /\ keyboard' = [keyboard EXCEPT !.hasEnterCallback = TRUE]
    /\ UNCHANGED notKeyboard

RegisterFocusableContacts(elements) ==
    /\ keyboard' = [keyboard EXCEPT !.focusableContacts = elements]
    /\ UNCHANGED notKeyboard

\* a component opens one of the overlays
OverlayOpened(which) ==
    /\ keyboard' = IF which = 1 THEN [keyboard EXCEPT !.overlay1Open = TRUE]
                   ELSE [keyboard EXCEPT !.overlay2Open = TRUE]
    /\ UNCHANGED notKeyboard

\* the user presses a key
KeyPress(key) ==
    /\ keyboard' = Dispatch([keyboard EXCEPT !.handled = 0, !.entered = 0], key,
                            keyboard.listeners)
    /\ UNCHANGED notKeyboard

NextKeyboard ==
    \/ RegisterKeydownListener
    \/ UnregisterKeydownListener
    \/ RegisterEnterCallback
    \/ \E elements \in 0..MaxContacts : RegisterFocusableContacts(elements)
    \/ \E which \in {1, 2} : OverlayOpened(which)
    \/ \E key \in Keys : KeyPress(key)

SpecKeyboard == Init /\ [][NextKeyboard]_vars

\* ------------------------------------------------ ToastService, followed alone
ThrowToast(code) ==
    /\ Len(toast.timers) < MaxToasts
    /\ toast' = [toast EXCEPT !.showToast = TRUE,
                              !.toastMessage = HandleToast(code),
                              !.timers = Append(@, SHOW_TIME)]
    /\ UNCHANGED notToast

\* the callback of the oldest timer runs once its time is up
ToastTimerFires ==
    /\ toast.timers # <<>>
    /\ Head(toast.timers) <= 0
    /\ toast' = [toast EXCEPT !.showToast = FALSE, !.timers = Tail(@)]
    /\ UNCHANGED notToast

\* time passes while no timer is due
ToastTimePasses ==
    /\ toast.timers # <<>>
    /\ \A i \in 1..Len(toast.timers) : toast.timers[i] > 0
    /\ toast' = [toast EXCEPT !.timers = [i \in 1..Len(@) |-> @[i] - TickTime]]
    /\ UNCHANGED notToast

NextToast ==
    \/ \E code \in ToastCodes : ThrowToast(code)
    \/ ToastTimerFires
    \/ ToastTimePasses

SpecToast == Init /\ [][NextToast]_vars

\* -------------------------------------------- handleCompression, followed alone
\* img.width and img.height of the decoded images
ImgSides == {1, 3, 400, 799, 800, 801, 1000, 1001, 1600, 2000, 2001, 4000}

\* maxWidth and maxHeight: the 800 x 800 compressToTargetSize passes to
\* compressImage (and its defaults), and two pairs of different maxima, which
\* the parameters of compressImage and setCanvasSize allow
MaxSides == {<<800, 800>>, <<800, 400>>, <<400, 800>>}

\* handleCompression(img, mimeType, maxWidth, maxHeight, quality) on a new canvas,
\* up to drawImage
HandleCompression(width, height, maxWidth, maxHeight) ==
    /\ canvas' = [pc |-> "drawn", img |-> <<width, height>>,
                  max |-> <<maxWidth, maxHeight>>,
                  out |-> SetCanvasSize(width, height, maxWidth, maxHeight)]
    /\ UNCHANGED notCanvas

NextCanvas ==
    \E width \in ImgSides, height \in ImgSides, max \in MaxSides :
       HandleCompression(width, height, max[1], max[2])

SpecCanvas == Init /\ [][NextCanvas]_vars

\* ------------------------------------------------------------------ claims
Range(s) == {s[i] : i \in 1..Len(s)}

\* the names in the rejection lists
ReportedNames ==
    Range(invalidFiles) \cup Range(totalSizeExceededFiles) \cup Range(oversizedCompressedImages)

\* the step is a call of addImages / of deleteSingelImage
AddStep == Len(calls') = Len(calls) + 1
DeleteStep == nOps' = nOps + 1 /\ calls' = calls /\ clearCall' = clearCall

\* the FileList of the call made in an AddStep
NewFiles == calls'[Len(calls')].files

\* C1: the collection never holds more than MAX_IMAGES entries, whatever the
\* interleaving of addImages, the completions of its compressions and the deletes.
C1_CountConservation ==
    Len(imagesForUpload) <= MAX_IMAGES

\* C2: the sizes of the attachments in the collection never sum to more than
\* MAX_TOTAL_IMAGES_BYTES.
C2_BudgetConservation ==
    SumSizes(imagesForUpload) <= Quarter(MAX_TOTAL_IMAGES_BYTES)

\* a file of an addImages call was accepted into a collection that holds other
\* attachments, and another file was rejected for the total size
C2_Witness ==
    /\ totalSizeExceededFiles # <<>>
    /\ \E i \in 1..Len(imagesForUpload) : imagesForUpload[i].call >= 1
    /\ 2 * SumSizes(imagesForUpload) > Quarter(MAX_TOTAL_IMAGES_BYTES)

\* C3: after deleteAllImagesFromForm no file of an addImages call made before it
\* is in the collection: the entries all come from later calls.
C3_ClearDiscardsInFlight ==
    \A i \in 1..Len(imagesForUpload) : imagesForUpload[i].call > clearCall

\* the collection without the first entry identical to target; unchanged if none is
RemoveFirstMatch(images, target) ==
    IF \E i \in 1..Len(images) : images[i].id = target
    THEN LET k == CHOOSE i \in 1..Len(images) :
                     /\ images[i].id = target
                     /\ \A j \in 1..(i - 1) : images[j].id # target
         IN  [i \in 1..(Len(images) - 1) |-> IF i < k THEN images[i] ELSE images[i + 1]]
    ELSE images

\* C4: deleteSingelImage(target) removes exactly the first entry identical to
\* target and keeps the others in order; with target not in the collection it
\* leaves the collection as it is.
C4_DeleteRemovesExactlyTarget ==
    [][DeleteStep => imagesForUpload' = RemoveFirstMatch(imagesForUpload, lastTarget')]_vars

\* C5: for the collection L of every reachable state and every entry x of it,
\* deleteSingelImage(x) called twice leaves what one call leaves.
C5_RemovalIdempotent ==
    \A i \in 1..Len(imagesForUpload) :
        LET x == imagesForUpload[i].id
            once == DeleteSingelImageResult(imagesForUpload, x)
        IN  DeleteSingelImageResult(once, x) = once

\* file f of an addImages call is an attachment of the collection or is named
\* in a rejection category (the errorTooManyImages signal stands for the category
\* "too many images", which has no list of names)
Accounted(f, images, names, tooMany) ==
    \/ \E i \in 1..Len(images) : images[i].id = f.fid
    \/ f.name \in names
    \/ tooMany

\* C6: at the step that ends the processing of an addImages call (the call itself
\* when it starts no compression, else the completion of its last compression),
\* every file of the call is accounted for.
C6_EveryFileAccounted ==
    [][\A c \in 1..Len(calls') :
          ( /\ ~ \E t \in tasks' : t.call = calls'[c].op
            /\ \/ c > Len(calls)
               \/ \E t \in tasks : t.call = calls'[c].op )
          => \A k \in 1..Len(calls'[c].files) :
                Accounted(calls'[c].files[k], imagesForUpload', ReportedNames',
                          errorTooManyImages')
      ]_vars

\* the MIME types the pipeline accepts
AcceptedTypes == {"image/jpeg", "image/webp"}

\* every file of the FileList has a type outside the accepted set
AllInvalid(files) == \A k \in 1..Len(files) : files[k].type \notin AcceptedTypes

\* what C7 says of a call of addImages with only invalid files: nothing is added
\* or compressed, every name is in invalidFiles exactly once, and no other
\* category is populated
OnlyInvalidReported ==
    /\ imagesForUpload' = imagesForUpload
    /\ tasks' = tasks
    /\ compressed' = compressed
    /\ Len(invalidFiles') = Len(NewFiles)
    /\ \A k \in 1..Len(NewFiles) :
          Cardinality({i \in 1..Len(invalidFiles') : invalidFiles'[i] = NewFiles[k].name}) = 1
    /\ totalSizeExceededFiles' = <<>>
    /\ oversizedCompressedImages' = <<>>
    /\ errorTooManyImages' = FALSE

\* C7 as stated: for a batch of any length whose files all have a type outside the
\* accepted set, no attachment is added, every name is in invalidFiles exactly
\* once and no other category is populated.
C7_RejectionCompletenessAnyLength ==
    [][(AddStep /\ AllInvalid(NewFiles)) => OnlyInvalidReported]_vars

\* C7 amended: the same, for the batches that pass the count check
\* (imagesForUpload.length + files.length <= MAX_IMAGES when addImages is called).
C7_RejectionCompleteness ==
    [][( /\ AddStep
         /\ AllInvalid(NewFiles)
         /\ Len(imagesForUpload) + Len(NewFiles) <= MAX_IMAGES ) => OnlyInvalidReported]_vars

\* the last addImages call passed the count check with two files, both of an
\* invalid type, and both names are in invalidFiles
C7_Witness ==
    /\ calls # <<>>
    /\ LET c == calls[Len(calls)]
       IN  /\ Len(c.files) = 2
           /\ AllInvalid(c.files)
           /\ c.len + Len(c.files) <= MAX_IMAGES
           /\ Range(invalidFiles) = {c.files[k].name : k \in 1..2}

\* C8: the rejection lists name only files of the most recent addImages call,
\* also after compressions of an earlier call have completed.
C8_ReportOfOneCall ==
    ReportedNames \subseteq
        (IF calls = <<>> THEN {}
         ELSE {calls[Len(calls)].files[k].name : k \in 1..Len(calls[Len(calls)].files)})

\* the files of the addImages calls that were rejected by the count check
OverflowFiles ==
    UNION { {calls[c].files[k].fid : k \in 1..Len(calls[c].files)} :
              c \in {d \in 1..Len(calls) : calls[d].len + Len(calls[d].files) > MAX_IMAGES} }

C10_CountOverflowRejectsBatch ==
    [][( /\ AddStep
         /\ Len(imagesForUpload) + Len(NewFiles) > MAX_IMAGES )
       => /\ imagesForUpload' = imagesForUpload
          /\ tasks' = tasks
          /\ compressed' = compressed
          /\ recorded' = recorded
          /\ errorTooManyImages' = TRUE]_vars

\* addImages was called with a valid file on a collection of MAX_IMAGES entries:
\* the signal is set and nothing is in flight
C10_Witness ==
    /\ calls # <<>>
    /\ calls[Len(calls)].len = MAX_IMAGES
    /\ \E k \in 1..Len(calls[Len(calls)].files) :
          calls[Len(calls)].files[k].type \in AcceptedTypes
    /\ errorTooManyImages
    /\ tasks = {}
    /\ Len(imagesForUpload) = MAX_IMAGES

\* C11: a file that passed the per-file check is recorded in totalSizeExceededFiles
\* exactly when the sum of the sizes in the collection at that moment plus its own
\* size is above MAX_TOTAL_IMAGES_BYTES; a file that brings the total to the
\* budget exactly is added.
C11_AggregateBoundary ==
    [][\A r \in recorded' \ recorded :
          r.cat \in {"totalSizeExceededFiles", "push"}
          => ( r.cat = "totalSizeExceededFiles"
               <=> SumSizes(imagesForUpload) + r.size > Quarter(MAX_TOTAL_IMAGES_BYTES) )]_vars

\* C12: every attachment in the collection has a size of at most
\* MAX_SINGLE_IMAGE_BYTES, and a compressed file is recorded in
\* oversizedCompressedImages (and not added) exactly when the encode that ended
\* compressToTargetSize was the fifth one (the initial encode and the
\* MAX_RETRIES retries, each of which follows an encode above the limit) and its
\* size is above the limit as well.
C12_PerFileCeiling ==
    /\ [](\A i \in 1..Len(imagesForUpload) :
             imagesForUpload[i].size <= Quarter(MAX_SINGLE_IMAGE_BYTES))
    /\ [][\A t \in tasks \ tasks' : \A r \in recorded' \ recorded :
             /\ r.fid = t.fid
             /\ r.cat = "oversizedCompressedImages"
                   <=> ( /\ t.tries = MAX_RETRIES + 1
                         /\ r.size > Quarter(MAX_SINGLE_IMAGE_BYTES) )
             /\ r.cat = "oversizedCompressedImages"
                   => /\ imagesForUpload' = imagesForUpload
                      /\ oversizedCompressedImages' = Append(oversizedCompressedImages, t.name)]_vars

\* one file of a call was given up after five encodes above the limit, another
\* one of the same call was added with the largest size within the limit
C12_Witness ==
    \E r \in recorded :
       /\ r.cat = "oversizedCompressedImages"
       /\ \E i \in 1..Len(imagesForUpload) :
             /\ imagesForUpload[i].call >= 1
             /\ imagesForUpload[i].base64 = LenFit
             /\ \E c \in 1..Len(calls) :
                   {r.fid, imagesForUpload[i].id} \subseteq
                       {calls[c].files[k].fid : k \in 1..Len(calls[c].files)}

\* the qualities of the encodes of one file, in percent
Qualities == <<95, 75, 55, 35, 15>>

\* C13: compressToTargetSize makes at most five encodes, at the qualities 0.95,
\* 0.75, 0.55, 0.35 and 0.15 in this order, each of the original file; an encode
\* is followed by another one only when its size is above MAX_SINGLE_IMAGE_BYTES;
\* the call returns the output of the last encode made, and it ends whenever
\* every encode ends.
C13_CompressionTerminates ==
    /\ [](/\ Len(loop.encodes) <= MAX_RETRIES + 1
          /\ \A k \in 1..Len(loop.encodes) :
                /\ loop.encodes[k].quality = Qualities[k]
                /\ loop.encodes[k].quality > 0
                /\ loop.encodes[k].input = loop.file
                /\ k < Len(loop.encodes)
                      => 3 * loop.encodes[k].len > Quarter(MAX_SINGLE_IMAGE_BYTES)
          /\ loop.pc = "await" => Len(loop.encodes) <= MAX_RETRIES
          /\ loop.pc = "returned"
                => /\ loop.encodes # <<>>
                   /\ loop.result = loop.encodes[Len(loop.encodes)].len
                   /\ \/ 3 * loop.result <= Quarter(MAX_SINGLE_IMAGE_BYTES)
                      \/ Len(loop.encodes) = MAX_RETRIES + 1)
    /\ (loop.pc = "await") ~> (loop.pc \in {"returned", "rejected"})

\* the call returned the output of its fifth encode, which fits, after four
\* encodes of different sizes above the limit
C13_Witness ==
    /\ loop.pc = "returned"
    /\ Len(loop.encodes) = MAX_RETRIES + 1
    /\ loop.result = LenFit
    /\ loop.encodes[1].len # loop.encodes[MAX_RETRIES].len

\* C14: at all times the size of every attachment is 0.75 times the length of
\* its base64 string (4 * size = 3 * length, size in bytes), the string being the
\* one compressToTargetSize returned, whatever the size of the file picked.
C14_SizeFormula ==
    /\ \A i \in 1..Len(imagesForUpload) :
          imagesForUpload[i].size = 3 * imagesForUpload[i].base64
    /\ \A r \in recorded : \A i \in 1..Len(imagesForUpload) :
          (r.fid = imagesForUpload[i].id /\ imagesForUpload[i].call >= 1)
          => r.size = 3 * imagesForUpload[i].base64

\* the collection holds attachments made from two picked files of different
\* sizes, their base64 strings being equally long
C14_Witness ==
    \E i, j \in 1..Len(imagesForUpload) :
       /\ imagesForUpload[i].call >= 1
       /\ imagesForUpload[j].call >= 1
       /\ imagesForUpload[i].filename = "a.jpg"
       /\ imagesForUpload[j].filename = "b.webp"
       /\ imagesForUpload[i].base64 = imagesForUpload[j].base64

FracLeq(f, n) == f.num <= n * f.den
FracEq(f, n) == f.num = n * f.den
FracTimes(f, n) == Frac(f.num * (n \div Gcd(n, f.den)), f.den \div Gcd(n, f.den))

InFlight == {t.fid : t \in tasks}
Outcomes == {r.fid : r \in recorded}

\* C17: a failed read or decode ends the handleFile of its file alone: the file
\* adds no attachment and no entry of a rejection list, and every other compressed
\* file of the batch is still in flight or has reached its own outcome, whichever
\* of them ended first.
C17_IoFailureIsolated ==
    /\ [](/\ \A fid \in ioFailed :
                /\ fid \notin Outcomes \cup InFlight
                /\ \A i \in 1..Len(imagesForUpload) : imagesForUpload[i].id # fid
          /\ compressed = InFlight \cup ioFailed \cup {r.fid : r \in {q \in recorded : q.cat # "invalidFiles"}})
    /\ [][ioFailed' # ioFailed
          => /\ \E t \in tasks : ioFailed' = ioFailed \cup {t.fid} /\ tasks' = tasks \ {t}
             /\ UNCHANGED <<imagesForUpload, invalidFiles, totalSizeExceededFiles,
                            oversizedCompressedImages, errorTooManyImages, recorded>>]_vars

\* of the two files of one call the read of the first failed and the second was
\* added
C17_Witness ==
    \E c \in 1..Len(calls) :
       /\ Len(calls[c].files) = 2
       /\ calls[c].files[1].fid \in ioFailed
       /\ \E r \in recorded : r.fid = calls[c].files[2].fid /\ r.cat = "push"
       /\ \E i \in 1..Len(imagesForUpload) : imagesForUpload[i].id = calls[c].files[2].fid

\* the files added to the collection so far
Pushed == {r \in recorded : r.cat = "push"}

\* C19: updatingImages emits once for every file that is added, in the step that
\* ends the file's handleFile, after the push, and the list it emits is the
\* collection with the new attachment at its end; the end of a handleFile that
\* rejects its file, a failed read, a retry and addImages itself emit nothing.
C19_EmissionFollowsCompletion ==
    /\ [](emitted = Cardinality(Pushed) + (nOps - Len(calls)))
    /\ [][/\ \A t \in tasks \ tasks' :
                IF \E r \in Pushed' \ Pushed : r.fid = t.fid
                THEN /\ emitted' = emitted + 1
                     /\ lastEmitted' = imagesForUpload'
                     /\ Len(imagesForUpload') = Len(imagesForUpload) + 1
                     /\ imagesForUpload'[Len(imagesForUpload')].id = t.fid
                ELSE /\ emitted' = emitted
                     /\ lastEmitted' = lastEmitted
          /\ AddStep => (emitted' = emitted /\ lastEmitted' = lastEmitted)]_vars

\* one file was added and the collection emitted with it at its end; another
\* file was compressed and rejected, and nothing was emitted for it
C19_Witness ==
    /\ emitted = 1
    /\ Cardinality(Pushed) = 1
    /\ lastEmitted = imagesForUpload
    /\ \E r \in Pushed : imagesForUpload[Len(imagesForUpload)].id = r.fid
    /\ \E r \in recorded : r.cat \in {"totalSizeExceededFiles", "oversizedCompressedImages"}

\* what the component shows and emits
Observable ==
    <<imagesForUpload, invalidFiles, totalSizeExceededFiles, oversizedCompressedImages,
      errorTooManyImages, emitted, lastEmitted>>

\* C18: a failed read or decode is recorded: the step in which compressImage
\* rejects leaves a signal in what the component shows or emits.
C18_IoFailureReported ==
    [][ioFailed' # ioFailed => Observable' # Observable]_vars

\* C20: whatever the state, a call of deleteAllImagesFromForm leaves the
\* collection and the three rejection lists empty and errorTooManyImages false,
\* and emits the empty collection, once.
C20_ClearResetsEverything ==
    [][clearCall' # clearCall
       => /\ imagesForUpload' = <<>>
          /\ invalidFiles' = <<>>
          /\ totalSizeExceededFiles' = <<>>
          /\ oversizedCompressedImages' = <<>>
          /\ errorTooManyImages' = FALSE
          /\ emitted' = emitted + 1
          /\ lastEmitted' = <<>>]_vars

\* deleteAllImagesFromForm was the last call, made on a collection that was not
\* empty, after an addImages that had filled invalidFiles and with a compression
\* still in flight
C20_Witness ==
    /\ clearCall = nOps
    /\ calls # <<>>
    /\ calls[1].len > 0
    /\ \E r \in recorded : r.cat = "invalidFiles"
    /\ tasks # {}
    /\ imagesForUpload = <<>>
    /\ invalidFiles = <<>>
    /\ lastEmitted = <<>>
    /\ emitted = 1

\* C21: the collection lists the attachments in the order in which their
\* handleFile calls ended, not in the order of the FileList: an accepted file is
\* put at the end of the collection, also when it is added after a file that
\* follows it in the same batch, so two files of one batch can end up in the
\* reverse of their order in the batch.
C21_AcceptanceOrderIsCompletionOrder ==
    [][\A t \in tasks \ tasks' :
          (\E r \in Pushed' \ Pushed : r.fid = t.fid)
          => /\ Len(imagesForUpload') = Len(imagesForUpload) + 1
             /\ SubSeq(imagesForUpload', 1, Len(imagesForUpload)) = imagesForUpload
             /\ imagesForUpload'[Len(imagesForUpload')].id = t.fid]_vars

\* both files of one addImages call are in the collection, the second file of
\* the FileList before the first
C21_Witness ==
    \E c \in 1..Len(calls) : \E i, j \in 1..Len(imagesForUpload) :
       /\ Len(calls[c].files) = 2
       /\ i < j
       /\ imagesForUpload[i].id = calls[c].files[2].fid
       /\ imagesForUpload[j].id = calls[c].files[1].fid

\* an image of w x h scaled by s = min(1, maxWidth / w, maxHeight / h)
ScaledToFit(w, h, maxWidth, maxHeight) ==
    IF w <= maxWidth /\ h <= maxHeight
    THEN [width |-> Whole(w), height |-> Whole(h)]
    ELSE IF maxWidth * h <= maxHeight * w
    THEN [width |-> Whole(maxWidth), height |-> Frac(h * maxWidth, w)]
    ELSE [width |-> Frac(w * maxHeight, h), height |-> Whole(maxHeight)]

\* C23: for every image of w x h pixels and all maxWidth and maxHeight, equal
\* or not, the width setCanvasSize returns is at most maxWidth, the height at
\* most maxHeight, and they are w * s and h * s for
\* s = min(1, maxWidth / w, maxHeight / h).
C23_BothMaximaRespected ==
    canvas.pc = "drawn"
    => LET fit == ScaledToFit(canvas.img[1], canvas.img[2], canvas.max[1], canvas.max[2])
       IN  /\ FracLeq(canvas.out.width, canvas.max[1])
           /\ FracLeq(canvas.out.height, canvas.max[2])
           /\ canvas.out.width = fit.width
           /\ canvas.out.height = fit.height

\* C24: the dummy tasks are inserted into the task collection of a user at most
\* once, also when a second 'users' snapshot arrives while the first call of
\* addDummyTasksToEmptyUserTasks is awaiting its reads: the collection never
\* holds more than one copy of them next to the tasks the user added.
C24_DummyTasksSeededOnce ==
    /\ taskData.seeded <= 1
    /\ taskData.userTasks <= NumDummyTasks + taskData.added

\* C26: after disconnectTaskStream, whatever calls of connectTaskStream came
\* before it, no subscription to the task collection is active and tasksSubject
\* gets no further value.
C26_TaskStreamCleanup ==
    taskData.disconnected => (taskData.subs = {} /\ ~taskData.updatedAfter)

\* C25: after any sequence of connectStreams and disconnectContactStream calls,
\* also with a disconnect and a reconnect made while connectContactStream is
\* awaiting its read, at most one contacts listener is active, and none after a
\* disconnect that no connect has followed.
C25_ContactListenerIdempotent ==
    /\ Cardinality(contactData.listeners) <= 1
    /\ contactData.disconnected => contactData.listeners = {}

C28_OverlaysMutuallyExclusive == ~(form.isOverlayOpen1 /\ form.isOverlayOpen2)

\* C29: listenerAttached tells how many keydown handlers of the service the
\* document holds, exactly one when it is true and none when it is false, and
\* a key press is handled at most once.
C29_ListenerAttachedReflectsListeners ==
    /\ keyboard.listeners = (IF keyboard.listenerAttached THEN 1 ELSE 0)
    /\ keyboard.handled <= 1

\* C30: every toast is shown for its whole display time: showToast is true
\* as long as the time of some throwToast call's timer is not up, so the timer
\* of an earlier toast does not hide a later one.
C30_ToastShownForItsTime ==
    (\E i \in 1..Len(toast.timers) : toast.timers[i] > 0) => toast.showToast

====
